---- MODULE Spec2Model ----
(***************************************************************************)
(* metabengine: ROI tracking (peak_detect.roi_finder), ROI segmentation    *)
(* (find_roi_cut, roi_cutter, MSData.cut_rois), ROI summarization          *)
(* (Roi.sum_roi) and isotope grouping (feature_grouping.annotate_isotope). *)
(*                                                                         *)
(* m/z values are integers in micro-Dalton (1 Da = 1000000), so that the   *)
(* tolerances of the code (0.01, 0.005, 0.04, 10, 1.003355/2, 0.012) are   *)
(* exact integers.  Scan indices are 0-based as in the code; TLA+          *)
(* sequences are 1-based, so scan index p is scans[p+1].  A ROI object is  *)
(* an entry of heap (its identity is its index), and the lists of the code *)
(* that hold ROI objects (rois, final_rois, d.rois) are sequences of heap  *)
(* indices, which keeps Python's aliasing.                                 *)
(***************************************************************************)
EXTENDS Integers, Sequences, FiniteSets, TLC

VARIABLES
    scans,          \* d.scans: the scans read so far (MS1 and MS2)
    heap,           \* the Roi objects created so far
    rois,           \* roi_finder: the ROIs in progress
    final_rois,     \* roi_finder: the finally selected ROIs
    d_rois,         \* d.rois
    last_ms1_idx,   \* roi_finder: index of the previous MS1 scan
    last_rt,        \* roi_finder: retention time of the previous MS1 scan
    pc,             \* position in the processing of one file
    err,            \* the exception that ended the processing, or "none"
    labeled_roi,    \* annotate_isotope: the consumed marks
    idx,            \* annotate_isotope: loop position (0-based)
    run,            \* annotate_isotope: number of runs started
    annot_before,   \* the marks and the annotation when the current run started
    sum_pos,        \* number of ROIs of d.rois that sum_roi has summarized
    ms2_similarity  \* what calculate_entropy_similarity returns, in hundredths

vars == <<scans, heap, rois, final_rois, d_rois, last_ms1_idx, last_rt, pc, err,
          labeled_roi, idx, run, annot_before, sum_pos, ms2_similarity>>

-----------------------------------------------------------------------------
(* Bounds of the model *)

MaxScans == 5
MaxMs2 == 1
SegMaxScans == 7
LifeMaxScans == 4
MaxCuts == 1
IsoMaxScans == 2
GenMaxScans == 4
PipeMaxCycles == 2
MalMaxScans == 3
ChgMaxIons == 3
ZeroMaxScans == 4
MaxRuns == 2

(* Program constants *)

NaN == -1
mz_tol_ms1 == 10000
roi_gap == 2
min_ion_num == 5
ms2_sim_tol == 75
iso_mass_diff == 1003355
iso_tol_thousandths == 12
iso_md_min == 40000
iso_md_max == 10000000
iso_mz_tol == 5000
iso_scan_tol == 2
iso_cor_min == 90

(* Input alphabet: the m/z values an MS1 ion can have, the precursor m/z   *)
(* values an MS2 scan can have and the intensities of an ion.              *)

(* Intensities are even, so that the halving of roi_cutter is exact.        *)

MzValues == <<100000000, 100005000, 101003355, 102006710, 102010000>>
PrecursorValues == {100002000, 101003355}

-----------------------------------------------------------------------------
(* numpy helpers *)

AbsDiff(a, b) == IF a >= b THEN a - b ELSE b - a

\* np.argmin of a non-empty array: the first position of the minimum (1-based)
\* np.abs(a - b) on floats: NaN when either is NaN
MzDiff(a, b) == IF a = NaN \/ b = NaN THEN NaN ELSE AbsDiff(a, b)

\* a < b on floats: False when either is NaN
FloatLess(a, b) == a # NaN /\ b # NaN /\ a < b

\* np.argmin: the first minimum, and the first NaN when there is one
ArgMin(d) ==
    CHOOSE i \in 1..Len(d) :
        IF \E j \in 1..Len(d) : d[j] = NaN
        THEN /\ d[i] = NaN
             /\ \A j \in 1..(i-1) : d[j] # NaN
        ELSE /\ \A j \in 1..Len(d) : d[i] <= d[j]
             /\ \A j \in 1..(i-1) : d[j] > d[i]

\* x in list
InSeq(x, s) == \E i \in 1..Len(s) : s[i] = x

\* s[::-1]
Reverse(s) == [i \in 1..Len(s) |-> s[Len(s) + 1 - i]]

\* the list without its (1-based) position i: list.pop(i) / del list[i]
RemoveAt(s, i) == [j \in 1..(Len(s) - 1) |-> IF j < i THEN s[j] ELSE s[j + 1]]

-----------------------------------------------------------------------------
(* Scan *)

(* The class Scan keeps the precursor m/z of an MS2 scan in the attribute   *)
(* precs_mz; loc_ms2_for_ms1_scan reads the attribute precursor_mz, which   *)
(* no code of the package sets.  has_precursor_mz tells whether the scan    *)
(* object carries that attribute (set by the caller) or is as the class     *)
(* Scan made it; precursor_mz is read only when it does.                    *)

Ms1Scan(scan, mzs, ints) ==
    [level |-> 1, scan |-> scan, rt |-> scan + 1,
     mz_seq |-> mzs, int_seq |-> ints, precs_mz |-> NaN,
     has_precursor_mz |-> FALSE, precursor_mz |-> NaN]

Ms2Scan(scan, precs_mz, has_precursor_mz) ==
    [level |-> 2, scan |-> scan, rt |-> scan + 1,
     mz_seq |-> <<>>, int_seq |-> <<>>, precs_mz |-> precs_mz,
     has_precursor_mz |-> has_precursor_mz,
     precursor_mz |-> IF has_precursor_mz THEN precs_mz ELSE NaN]

\* the ascending sequence of the m/z values selected by S (a set of positions)
RECURSIVE Pick(_, _)
Pick(S, i) ==
    IF i > Len(MzValues) THEN <<>>
    ELSE IF i \in S THEN <<MzValues[i]>> \o Pick(S, i + 1)
    ELSE Pick(S, i + 1)

\* the ion lists of an MS1 scan: [mz_seq, int_seq], with the m/z values at the
\* positions P of MzValues and intensities from ints
Ms1Ions(P, ints) ==
    UNION { { [mz_seq |-> Pick(S, 1), int_seq |-> f] :
                f \in [1..Cardinality(S) -> ints] } :
            S \in SUBSET P }

\* the MS2 scans that follow one MS1 scan, in order, at most n of them: each
\* is <<precursor m/z, has_precursor_mz>>, with the precursor m/z from precs
\* for a scan that carries the attribute and from bare for one that does not
Ms2Tails(precs, bare, n) ==
    UNION { [1..k -> (precs \X {TRUE}) \cup (bare \X {FALSE})] : k \in 0..n }

\* an ion, the ions one and two half-units of the isotope spacing above it
\* and an ion 21 half-units (more than 10 Da) above it
ChgValues == {100000000, 100501678, 101003355, 110535228}

\* MS1 scans whose arrays are in the order the producer wrote them: up to
\* ChgMaxIons different m/z in any order, all with intensity 2
ChgIons ==
    { [mz_seq |-> m, int_seq |-> [k \in 1..Len(m) |-> 2]] :
        m \in { x \in UNION { [1..n -> ChgValues] : n \in 0..ChgMaxIons } :
                  \A i, j \in 1..Len(x) : i # j => x[i] # x[j] } }

\* MS1 scans with one ion whose intensity can be 0 (the reader keeps the
\* intensity array of the file as it is)
ZeroIons == Ms1Ions({1}, {0, 2})

\* the scans of the specifications
\* MS1 scans as a reader could hand them over unchecked: up to two m/z, each
\* finite or NaN, and up to two intensities
MalIons ==
    { [mz_seq |-> m, int_seq |-> [k \in 1..n |-> 2]] :
        m \in UNION { [1..k -> {MzValues[1], NaN}] : k \in 0..2 }, n \in 0..2 }
TrackIons == Ms1Ions(1..3, {2})
TrackTails == Ms2Tails(PrecursorValues, {100002000}, MaxMs2)
SegIons == Ms1Ions({1}, {2, 4})
SegTails == Ms2Tails({100002000}, {100002000}, MaxMs2)
LifeIons == Ms1Ions({1, 3}, {2, 4})
IsoIons == Ms1Ions(1..3, {2, 4})
\* an ion, its first and second isotope and an ion near the second isotope;
\* the two isotopes are in every scan and the ions of a scan are equally high
GenIons ==
    { ions \in Ms1Ions({1, 3, 4, 5}, {2, 4}) :
        /\ InSeq(MzValues[3], ions.mz_seq) /\ InSeq(MzValues[4], ions.mz_seq)
        /\ \A k \in 1..Len(ions.int_seq) : ions.int_seq[k] = ions.int_seq[1] }
SimValues == {40, 80}

\* d.ms1_idx: the (0-based) indices of the MS1 scans, in order
RECURSIVE Ms1IdxFrom(_, _)
Ms1IdxFrom(sc, p) ==
    IF p >= Len(sc) THEN <<>>
    ELSE IF sc[p + 1].level = 1 THEN <<p>> \o Ms1IdxFrom(sc, p + 1)
    ELSE Ms1IdxFrom(sc, p + 1)

ms1_idx == Ms1IdxFrom(scans, 0)

\* the scans after reading one more MS1 scan and the MS2 scans that follow it
ReadCycle(sc, ions, tail) ==
    sc \o <<Ms1Scan(Len(sc), ions.mz_seq, ions.int_seq)>>
       \o [k \in 1..Len(tail) |-> Ms2Scan(Len(sc) + k, tail[k][1], tail[k][2])]

-----------------------------------------------------------------------------
(* Roi *)

Roi(scan_idx, rt, mz, intensity) ==
    [scan_idx_seq |-> <<scan_idx>>, rt_seq |-> <<rt>>, mz_seq |-> <<mz>>,
     int_seq |-> <<intensity>>, ms2_seq |-> <<>>, gap_counter |-> 0,
     mz |-> mz, rt |-> NaN, scan_number |-> -1, peak_area |-> NaN,
     peak_height |-> NaN, peak_height_by_ave |-> NaN,
     total_intensity |-> NaN, length |-> 0,
     \* attributes that annotate_isotope adds to the object (absent before)
     isotope_int_seq |-> <<>>, isotope_mz_seq |-> <<>>,
     charge_state |-> 0, isotope_state |-> -1]

\* the extension that repeats the scan index of the entry before
ExtendRoiSameScan(roi, scan_idx, rt, mz, intensity) ==
    [roi EXCEPT !.scan_idx_seq = Append(@, roi.scan_idx_seq[Len(roi.scan_idx_seq)]),
                !.rt_seq = Append(@, rt),
                !.mz_seq = Append(@, mz),
                !.int_seq = Append(@, intensity)]

\* the extension that forgets the retention time
ExtendRoiNoRt(roi, scan_idx, rt, mz, intensity) ==
    [roi EXCEPT !.scan_idx_seq = Append(@, scan_idx),
                !.mz_seq = Append(@, mz),
                !.int_seq = Append(@, intensity)]

\* lines 276-297
extend_roi(roi, scan_idx, rt, mz, intensity) ==
    [roi EXCEPT !.scan_idx_seq = Append(@, scan_idx),
                !.rt_seq = Append(@, rt),
                !.mz_seq = Append(@, mz),
                !.int_seq = Append(@, intensity)]

\* roi.ms2_seq.append(d.scans[allocate_vec[i]]) when allocate_vec[i] > 0
AttachMs2(roi, a) ==
    IF a > 0 THEN [roi EXCEPT !.ms2_seq = Append(@, a)] ELSE roi

-----------------------------------------------------------------------------
(* loc_ms2_for_ms1_scan *)

RECURSIVE AllocLoop(_, _, _, _)
AllocLoop(sc, mz_vec, i, vec) ==
    IF i >= Len(sc) \/ vec.err # "none" THEN vec
    ELSE IF sc[i + 1].level = 1 THEN vec
    ELSE IF ~sc[i + 1].has_precursor_mz
         THEN [vec EXCEPT !.err = "AttributeError"]  \* no attribute precursor_mz
    ELSE IF Len(mz_vec) = 0
         THEN [vec EXCEPT !.err = "ValueError"]   \* np.argmin of an empty array
    ELSE AllocLoop(sc, mz_vec, i + 1,
            [vec EXCEPT !.v[ArgMin([k \in 1..Len(mz_vec) |->
                                      MzDiff(mz_vec[k], sc[i + 1].precursor_mz)])] = i])

loc_ms2_for_ms1_scan(sc, p) ==
    AllocLoop(sc, sc[p + 1].mz_seq, p + 1,
              [v |-> [k \in 1..Len(sc[p + 1].mz_seq) |-> 0], err |-> "none"])

-----------------------------------------------------------------------------
(* roi_finder: the body of the loop over the MS1 scans *)

\* the claim test without the check that the ion is still free
CanClaimAnyIon(mz_diff, min_idx, visited_idx) ==
    FloatLess(mz_diff[min_idx], mz_tol_ms1)

\* lines 63-64: the nearest ion is near enough and not yet taken in this scan
CanClaim(mz_diff, min_idx, visited_idx) ==
    FloatLess(mz_diff[min_idx], mz_tol_ms1) /\ ~InSeq(min_idx, visited_idx)

\* the gap test closing a ROI one scan early
GapReached(gap) == gap >= roi_gap

\* line 82: the ROI has not been visited for too long
GapExceeded(gap) == gap > roi_gap

\* the move that leaves the ROI in the list of the ROIs in progress
CopyToFinal(st, i) ==
    [rois |-> st.rois, final_rois |-> Append(st.final_rois, st.rois[i])]

\* line 87: final_rois.append(rois.pop(i)), on rois and final_rois
PopToFinal(st, i) ==
    [rois |-> RemoveAt(st.rois, i), final_rois |-> Append(st.final_rois, st.rois[i])]

\* lines 57-72: every ROI in progress looks for its nearest ion
RECURSIVE ClaimLoop(_, _, _, _, _)
ClaimLoop(s, alloc, act, i, st) ==
    IF i > Len(act) \/ st.err # "none" THEN st
    ELSE IF Len(s.mz_seq) = 0
         THEN [st EXCEPT !.err = "ValueError"]    \* np.argmin of an empty array
    ELSE
        LET roi == st.heap[act[i]]
            mz_diff == [k \in 1..Len(s.mz_seq) |-> MzDiff(roi.mz, s.mz_seq[k])]
            min_idx == ArgMin(mz_diff)
        IN  IF CanClaim(mz_diff, min_idx, st.visited_idx)
            THEN IF min_idx > Len(s.int_seq)
                 THEN [st EXCEPT !.err = "IndexError"]    \* s.int_seq[min_idx]
                 ELSE
                 ClaimLoop(s, alloc, act, i + 1,
                    [st EXCEPT
                        !.heap[act[i]] =
                            AttachMs2(
                                [extend_roi(roi, s.scan, s.rt, s.mz_seq[min_idx],
                                            s.int_seq[min_idx])
                                    EXCEPT !.gap_counter = 0],
                                alloc[min_idx]),
                        !.visited_idx = Append(@, min_idx),
                        !.visited_rois_idx = Append(@, i)])
            ELSE ClaimLoop(s, alloc, act, i + 1, st)

\* lines 77-83: the ROIs not visited get a padding entry
RECURSIVE PadLoop(_, _, _, _, _)
PadLoop(s, act, visited_rois_idx, i, st) ==
    IF i > Len(act) THEN st
    ELSE IF InSeq(i, visited_rois_idx) THEN PadLoop(s, act, visited_rois_idx, i + 1, st)
    ELSE
        LET roi == extend_roi(st.heap[act[i]], s.scan, s.rt, NaN, 0)
            gap == roi.gap_counter + 1
        IN  PadLoop(s, act, visited_rois_idx, i + 1,
                [heap |-> [st.heap EXCEPT ![act[i]] = [roi EXCEPT !.gap_counter = gap]],
                 to_be_moved |-> IF GapExceeded(gap)
                                 THEN Append(st.to_be_moved, i)
                                 ELSE st.to_be_moved])

\* lines 86-87: for i in to_be_moved[::-1]: final_rois.append(rois.pop(i))
RECURSIVE MoveLoop(_, _)
MoveLoop(moved, st) ==
    IF moved = <<>> THEN st
    ELSE MoveLoop(Tail(moved), PopToFinal(st, Head(moved)))

\* the test that lets every ion start a ROI
AnyIon(i, visited_idx) == TRUE

\* line 91: if i not in visited_idx
Unclaimed(i, visited_idx) == ~InSeq(i, visited_idx)

\* the registration that puts the new ROI before the older ones
RegisterFirst(act, r) == <<r>> \o act

\* line 97: rois.append(roi)
Register(act, r) == Append(act, r)

\* lines 90-97: the ions not visited start new ROIs, with a zero before them
RECURSIVE SpawnLoop(_, _, _, _, _, _, _)
SpawnLoop(s, alloc, visited_idx, lidx, lrt, i, st) ==
    IF i > Len(s.int_seq) \/ st.err # "none" THEN st
    ELSE IF ~Unclaimed(i, visited_idx)
         THEN SpawnLoop(s, alloc, visited_idx, lidx, lrt, i + 1, st)
    ELSE IF i > Len(s.mz_seq)
         THEN [st EXCEPT !.err = "IndexError"]    \* s.mz_seq[i]
    ELSE
        LET roi == AttachMs2(
                       extend_roi(Roi(lidx, lrt, s.mz_seq[i], 0),
                                  s.scan, s.rt, s.mz_seq[i], s.int_seq[i]),
                       alloc[i])
        IN  SpawnLoop(s, alloc, visited_idx, lidx, lrt, i + 1,
                [heap |-> Append(st.heap, roi),
                 rois |-> Register(st.rois, Len(st.heap) + 1),
                 err |-> "none"])

\* lines 48-99: one MS1 scan (index p) of the loop
TrackScan(sc, p, h, act, fin, lidx, lrt) ==
    LET s == sc[p + 1]
        alloc == loc_ms2_for_ms1_scan(sc, p)
        claimed == ClaimLoop(s, alloc.v, act, 1,
                      [heap |-> h, visited_idx |-> <<>>, visited_rois_idx |-> <<>>,
                       err |-> "none"])
        padded == PadLoop(s, act, claimed.visited_rois_idx, 1,
                      [heap |-> claimed.heap, to_be_moved |-> <<>>])
        moved == MoveLoop(Reverse(padded.to_be_moved),
                      [rois |-> act, final_rois |-> fin])
        spawned == SpawnLoop(s, alloc.v, claimed.visited_idx, lidx, lrt, 1,
                      [heap |-> padded.heap, rois |-> moved.rois, err |-> "none"])
    IN  IF alloc.err # "none"
        THEN [heap |-> h, rois |-> act, final_rois |-> fin, err |-> alloc.err]
        ELSE IF claimed.err # "none"
        THEN [heap |-> claimed.heap, rois |-> act, final_rois |-> fin,
              err |-> claimed.err]
        ELSE IF spawned.err # "none"
        THEN [heap |-> spawned.heap, rois |-> spawned.rois,
              final_rois |-> moved.final_rois, err |-> spawned.err]
        ELSE [heap |-> spawned.heap, rois |-> spawned.rois,
              final_rois |-> moved.final_rois, err |-> "none"]

\* lines 36-40: the first MS1 scan starts one ROI per ion
RECURSIVE SeedLoop(_, _, _, _)
SeedLoop(fs, alloc, i, st) ==
    IF i > Len(fs.int_seq) \/ st.err # "none" THEN st
    ELSE IF i > Len(fs.mz_seq)
         THEN [st EXCEPT !.err = "IndexError"]    \* fs.mz_seq[i]
    ELSE SeedLoop(fs, alloc, i + 1,
            [heap |-> Append(st.heap,
                         AttachMs2(Roi(fs.scan, fs.rt, fs.mz_seq[i], fs.int_seq[i]),
                                   alloc[i])),
             rois |-> Append(st.rois, Len(st.heap) + 1),
             err |-> "none"])

-----------------------------------------------------------------------------
(* Roi.sum_roi *)

\* int_seq[i] with Python's indexing (i 0-based, negative from the end); the
\* caller checks InRange first
PyInRange(x, i) == i >= -Len(x) /\ i <= Len(x) - 1
PyGet(x, i) == IF i >= 0 THEN x[i + 1] ELSE x[Len(x) + i + 1]

\* lines 357-360: the while loop; [end_idx, err]
RECURSIVE TrimLoop(_, _)
TrimLoop(x, end_idx) ==
    IF ~PyInRange(x, end_idx) THEN [end_idx |-> end_idx, err |-> "IndexError"]
    ELSE IF PyGet(x, end_idx) # 0 THEN [end_idx |-> end_idx, err |-> "none"]
    ELSE IF ~PyInRange(x, end_idx - 1) THEN [end_idx |-> end_idx, err |-> "IndexError"]
    ELSE IF PyGet(x, end_idx - 1) # 0 THEN [end_idx |-> end_idx, err |-> "none"]
    ELSE TrimLoop(x, end_idx - 1)

\* max(range(len(x)), key=x.__getitem__): the first position of the maximum
ArgMaxFirst(x) ==
    CHOOSE i \in 1..Len(x) :
        /\ \A j \in 1..Len(x) : x[j] <= x[i]
        /\ \A j \in 1..(i - 1) : x[j] < x[i]

RECURSIVE SumSeq(_, _)
SumSeq(x, n) == IF n = 0 THEN 0 ELSE x[n] + SumSeq(x, n - 1)

\* the trapezoidal sum with the retention times taken backwards
RECURSIVE TrapzBackward(_, _, _)
TrapzBackward(y, x, n) ==
    IF n <= 1 THEN 0
    ELSE 30 * (x[n - 1] - x[n]) * (y[n] + y[n - 1]) + TrapzBackward(y, x, n - 1)

\* np.trapz(y, x) * 60 = 30 * sum (x[i+1] - x[i]) * (y[i] + y[i+1])
RECURSIVE Trapz60(_, _, _)
Trapz60(y, x, n) ==
    IF n <= 1 THEN 0
    ELSE 30 * (x[n] - x[n - 1]) * (y[n] + y[n - 1]) + Trapz60(y, x, n - 1)

\* lines 317-328
find_apex(roi) ==
    LET tmp == ArgMaxFirst(roi.int_seq)
    IN  [roi EXCEPT !.rt = roi.rt_seq[tmp],
                    !.scan_number = roi.scan_idx_seq[tmp],
                    !.peak_height = roi.int_seq[tmp],
                    !.mz = roi.mz_seq[tmp],
                    !.total_intensity = SumSeq(roi.int_seq, Len(roi.int_seq))]

\* lines 331-337
find_roi_area(roi) ==
    [roi EXCEPT !.peak_area = Trapz60(roi.int_seq, roi.rt_seq, Len(roi.int_seq))]

\* lines 365-368: the four arrays are cut at end_idx
TrimArrays(roi, end_idx) ==
    [roi EXCEPT !.mz_seq = SubSeq(@, 1, end_idx),
                !.int_seq = SubSeq(@, 1, end_idx),
                !.rt_seq = SubSeq(@, 1, end_idx),
                !.scan_idx_seq = SubSeq(@, 1, end_idx)]

\* lines 352-382; [roi, err]
sum_roi(roi) ==
    LET t == TrimLoop(roi.int_seq, Len(roi.int_seq) - 1)
        r1 == find_roi_area(find_apex(TrimArrays(roi, t.end_idx + 1)))
        tmp == (IF r1.int_seq[1] = 0 THEN 1 ELSE 0)
               + (IF r1.int_seq[Len(r1.int_seq)] = 0 THEN 1 ELSE 0)
        r2 == IF r1.int_seq[1] = 0 THEN [r1 EXCEPT !.mz_seq[1] = NaN] ELSE r1
    IN  IF t.err # "none" THEN [roi |-> roi, err |-> t.err]
        ELSE [roi |-> [r2 EXCEPT !.length = Len(r2.int_seq) - tmp], err |-> "none"]

-----------------------------------------------------------------------------
(* find_roi_cut, roi_cutter, Roi.subset_roi, MSData.cut_rois *)

\* np.count_nonzero
count_nonzero(x) == Cardinality({i \in 1..Len(x) : x[i] # 0})

\* argrelextrema(x, np.less)[0]: the (0-based) positions strictly below both
\* neighbours, ascending; the two ends are never among them
RECURSIVE LocalMinima(_, _)
LocalMinima(x, i) ==
    IF i > Len(x) - 2 THEN <<>>
    ELSE (IF x[i + 1] < x[i] /\ x[i + 1] < x[i + 2] THEN <<i>> ELSE <<>>)
         \o LocalMinima(x, i + 1)

\* the MS2 scans of the ROI strictly between two scan indices
Ms2Between(roi, lo, hi) ==
    SelectSeq(roi.ms2_seq, LAMBDA m : m > lo /\ m < hi)

\* the eligibility test without the count of the non-zero intensities
EligibleAnyLength(roi) == Len(roi.ms2_seq) >= 2

\* line 126
Eligible(roi) ==
    count_nonzero(roi.int_seq) >= min_ion_num /\ Len(roi.ms2_seq) >= 2

\* lines 138-155: cp are the candidate positions between 0 and len-1.  With
\* MS2 spectra on both sides the argument ms2_left.peaks is evaluated, and
\* ms2_left is a list: AttributeError, before any similarity is computed.
RECURSIVE ConfirmLoop(_, _, _, _)
ConfirmLoop(roi, cp, i, st) ==
    IF i > Len(cp) - 3 \/ st.err # "none" THEN st
    ELSE
        LET scan_idx1 == roi.scan_idx_seq[cp[i + 1] + 1]
            scan_idx2 == roi.scan_idx_seq[cp[i + 2] + 1]
            scan_idx3 == roi.scan_idx_seq[cp[i + 3] + 1]
            ms2_left == Ms2Between(roi, scan_idx1, scan_idx2)
            ms2_right == Ms2Between(roi, scan_idx2, scan_idx3)
        IN  IF Len(ms2_left) # 0 /\ Len(ms2_right) # 0
            THEN [st EXCEPT !.err = "AttributeError"]
            ELSE ConfirmLoop(roi, cp, i + 1, st)

\* lines 108-163; [positions, err], positions = <<>> for None
find_roi_cut(roi) ==
    IF Eligible(roi)
    THEN LET cut_positions == LocalMinima(roi.int_seq, 1)
         IN  IF Len(cut_positions) # 0
             THEN ConfirmLoop(roi,
                      <<0>> \o cut_positions \o <<Len(roi.int_seq) - 1>>, 0,
                      [positions |-> <<>>, err |-> "none"])
             ELSE [positions |-> <<>>, err |-> "none"]
    ELSE [positions |-> <<>>, err |-> "none"]

\* the subset whose MS2 list is that of the whole ROI
SubsetRoiAllMs2(roi, start, end) ==
    [roi EXCEPT !.scan_idx_seq = SubSeq(@, start + 1, end),
                !.rt_seq = SubSeq(@, start + 1, end),
                !.mz_seq = SubSeq(@, start + 1, end),
                !.int_seq = SubSeq(@, start + 1, end)]

\* lines 385-408 (start, end as in the slices: 0-based, end excluded)
subset_roi(roi, start, end) ==
    LET idxs == SubSeq(roi.scan_idx_seq, start + 1, end)
    IN  [roi EXCEPT !.scan_idx_seq = idxs,
                    !.rt_seq = SubSeq(@, start + 1, end),
                    !.mz_seq = SubSeq(@, start + 1, end),
                    !.int_seq = SubSeq(@, start + 1, end),
                    !.ms2_seq = SelectSeq(@, LAMBDA m : m > idxs[1] /\ m < idxs[Len(idxs)])]

\* lines 178-179
RECURSIVE HalveAt(_, _)
HalveAt(x, positions) ==
    IF positions = <<>> THEN x
    ELSE HalveAt([x EXCEPT ![Head(positions) + 1] = @ \div 2], Tail(positions))

\* lines 166-193, on the heap: the ROI r is changed in place and the pieces
\* are new objects (deep copies); [heap, rois]
roi_cutter(h, r, positions) ==
    LET h1 == [h EXCEPT ![r].int_seq = HalveAt(@, positions)]
        ps == <<0>> \o positions \o <<Len(h[r].int_seq) - 1>>
        pieces == [i \in 1..(Len(ps) - 1) |-> subset_roi(h1[r], ps[i], ps[i + 1] + 1)]
    IN  [heap |-> h1 \o pieces,
         rois |-> [i \in 1..Len(pieces) |-> Len(h1) + i]]

\* the test that cuts whatever find_roi_cut returned
CutAlways(positions) == TRUE

\* line 245: positions is not None
IsCut(positions) == positions # <<>>

\* lines 242-250: the loop of cut_rois; st = [heap, small_rois, to_be_removed, err]
RECURSIVE CutLoop(_, _, _)
CutLoop(dr, i, st) ==
    IF i > Len(dr) \/ st.err # "none" THEN st
    ELSE
        LET found == find_roi_cut(st.heap[dr[i]])
            cut == roi_cutter(st.heap, dr[i], found.positions)
        IN  IF found.err # "none" THEN [st EXCEPT !.err = found.err]
            ELSE IF IsCut(found.positions)
            THEN CutLoop(dr, i + 1,
                    [heap |-> cut.heap,
                     small_rois |-> st.small_rois \o cut.rois,
                     to_be_removed |-> Append(st.to_be_removed, i),
                     err |-> "none"])
            ELSE CutLoop(dr, i + 1, st)

\* lines 253-254: for i in sorted(to_be_removed, reverse=True): del self.rois[i]
RECURSIVE DelLoop(_, _)
DelLoop(dr, removed) ==
    IF removed = <<>> THEN dr
    ELSE DelLoop(RemoveAt(dr, Head(removed)), Tail(removed))

\* lines 229-257; [heap, rois, err]
cut_rois(h, dr) ==
    LET st == CutLoop(dr, 1, [heap |-> h, small_rois |-> <<>>,
                              to_be_removed |-> <<>>, err |-> "none"])
    IN  IF st.err # "none" THEN [heap |-> st.heap, rois |-> dr, err |-> st.err]
        ELSE [heap |-> st.heap,
              rois |-> DelLoop(dr, Reverse(st.to_be_removed)) \o st.small_rois,
              err |-> "none"]

-----------------------------------------------------------------------------
(* feature_grouping: annotate_isotope, _find_iso_from_scan,                *)
(* peak_peak_correlation                                                   *)

\* d.rois.sort(key=lambda x: x.mz): list.sort is stable
RECURSIVE InsertByMz(_, _, _)
InsertByMz(h, sorted, r) ==
    IF sorted = <<>> THEN <<r>>
    ELSE IF h[r].mz < h[Head(sorted)].mz THEN <<r>> \o sorted
    ELSE <<Head(sorted)>> \o InsertByMz(h, Tail(sorted), r)

RECURSIVE SortByMz(_, _, _)
SortByMz(h, dr, n) ==
    IF n = 0 THEN <<>> ELSE InsertByMz(h, SortByMz(h, dr, n - 1), dr[n])

\* round(2 * md / iso_mass_diff): the quotient is never half-way, as
\* iso_mass_diff is odd
RoundHalfUnits(md) == (4 * md + iso_mass_diff) \div (2 * iso_mass_diff)

\* line 182: abs(tmp - a) < 0.012, with tmp = md / (1.003355 / 2)
NearHalfUnit(md) ==
    1000 * AbsDiff(2 * md, RoundHalfUnits(md) * iso_mass_diff)
        < iso_tol_thousandths * iso_mass_diff

\* lines 174-186: the loop over the ions of the scan, in array order
RECURSIVE IsoLoop(_, _, _, _)
IsoLoop(scan, mz, i, st) ==
    IF i > Len(scan.mz_seq) THEN st
    ELSE
        LET md == scan.mz_seq[i] - mz
        IN  IF md < iso_md_min THEN IsoLoop(scan, mz, i + 1, st)
            ELSE IF md > iso_md_max THEN st
            ELSE IF NearHalfUnit(md)
            THEN IsoLoop(scan, mz, i + 1,
                    [isotopes |-> Append(st.isotopes, scan.mz_seq[i]),
                     distribution |-> Append(st.distribution, scan.int_seq[i]),
                     charge_state |-> IF RoundHalfUnits(md) % 2 = 1
                                      THEN 2 ELSE st.charge_state])
            ELSE IsoLoop(scan, mz, i + 1, st)

\* lines 165-188
find_iso_from_scan(scan, mz) ==
    IsoLoop(scan, mz, 1, [isotopes |-> <<>>, distribution |-> <<>>, charge_state |-> 1])

\* the correlation without the automatic pass, in hundredths; [cor, err]
NoAutomaticPass(roi1, roi2) ==
    LET common_scans == {roi1.scan_idx_seq[i] : i \in 1..Len(roi1.scan_idx_seq)}
                        \cap {roi2.scan_idx_seq[i] : i \in 1..Len(roi2.scan_idx_seq)}
    IN  IF Cardinality(common_scans) < 2 THEN [cor |-> 0, err |-> "none"]
        ELSE [cor |-> 0, err |-> "TypeError"]

\* lines 149-162, in hundredths; [cor, err].  With two common scans or more
\* roi1.int_seq, a list, is indexed by a boolean array: TypeError.
peak_peak_correlation(roi1, roi2) ==
    LET common_scans == {roi1.scan_idx_seq[i] : i \in 1..Len(roi1.scan_idx_seq)}
                        \cap {roi2.scan_idx_seq[i] : i \in 1..Len(roi2.scan_idx_seq)}
    IN  IF Cardinality(common_scans) < 2 THEN [cor |-> 100, err |-> "none"]
        ELSE [cor |-> 0, err |-> "TypeError"]

\* line 45: the positions (1-based, ascending) of the ROIs near the isotope
\* m/z and near the apex scan of the anchor
Candidates(h, dr, iso, scan_number) ==
    SelectSeq([i \in 1..Len(dr) |-> i],
              LAMBDA i : /\ AbsDiff(h[dr[i]].mz, iso) < iso_mz_tol
                         /\ AbsDiff(h[dr[i]].scan_number, scan_number) <= iso_scan_tol)

\* lines 50-54
PickCandidate(h, dr, v, scan_number) ==
    IF Len(v) > 1
    THEN v[ArgMin([k \in 1..Len(v) |-> AbsDiff(h[dr[v[k]]].scan_number, scan_number)])]
    ELSE v[1]

\* the start that keeps the sequences of an earlier run
KeepSequences(r) ==
    [r EXCEPT !.isotope_int_seq = @ \o <<r.peak_height>>,
              !.isotope_mz_seq = @ \o <<r.mz>>]

\* lines 36-37: the anchor starts its isotope sequences with itself
StartSequences(r) ==
    [r EXCEPT !.isotope_int_seq = <<r.peak_height>>,
              !.isotope_mz_seq = <<r.mz>>]

StartSequencesIn(h, r) == [h EXCEPT ![r] = StartSequences(h[r])]

\* lines 44-64: the loop over the isotopes of one anchor (position a of dr);
\* st = [heap, labeled, accepted, err]
RECURSIVE IsotopeLoop(_, _, _, _, _)
IsotopeLoop(dr, a, isotopes, j, st) ==
    IF j > Len(isotopes) \/ st.err # "none" THEN st
    ELSE
        LET r == st.heap[dr[a]]
            v == Candidates(st.heap, dr, isotopes[j], r.scan_number)
            c == PickCandidate(st.heap, dr, v, r.scan_number)
            cor == peak_peak_correlation(r, st.heap[dr[c]])
        IN  IF Len(v) = 0 THEN IsotopeLoop(dr, a, isotopes, j + 1, st)
            ELSE IF cor.err # "none" THEN [st EXCEPT !.err = cor.err]
            ELSE IF cor.cor > iso_cor_min
            THEN IsotopeLoop(dr, a, isotopes, j + 1,
                    [st EXCEPT
                        !.labeled[c] = TRUE,
                        !.accepted = Append(@, c),
                        !.heap[dr[a]].isotope_int_seq = Append(@, st.heap[dr[c]].peak_height),
                        !.heap[dr[a]].isotope_mz_seq = Append(@, st.heap[dr[c]].mz),
                        !.heap[dr[c]].isotope_state = j])
            ELSE IsotopeLoop(dr, a, isotopes, j + 1, st)

\* the test that lets a consumed ROI be an anchor
NeverConsumed(labeled, a) == FALSE

\* line 31: if labeled_roi[idx]
Consumed(labeled, a) == labeled[a]

\* lines 29-64: one round of the loop over the ROIs, for position a (1-based)
\* of the sorted d.rois; [heap, labeled, accepted, err]
AnchorPass(sc, h, dr, labeled, a) ==
    LET r == h[dr[a]]
        apex == IF PyInRange(sc, r.scan_number)
                THEN PyGet(sc, r.scan_number) ELSE Ms2Scan(0, NaN, FALSE)
        iso == find_iso_from_scan(apex, r.mz)
        h1 == [h EXCEPT ![dr[a]] = [StartSequences(r) EXCEPT !.charge_state = iso.charge_state]]
    IN  IF Consumed(labeled, a)
        THEN [heap |-> h, labeled |-> labeled, accepted |-> <<>>, err |-> "none"]
        ELSE IF ~PyInRange(sc, r.scan_number)
        THEN [heap |-> StartSequencesIn(h, dr[a]), labeled |-> labeled,
              accepted |-> <<>>, err |-> "IndexError"]
        ELSE IF apex.level # 1     \* scan.mz_seq is None for an MS2 scan
        THEN [heap |-> StartSequencesIn(h, dr[a]), labeled |-> labeled,
              accepted |-> <<>>, err |-> "TypeError"]
        ELSE IsotopeLoop(dr, a, iso.isotopes, 1,
                [heap |-> h1, labeled |-> labeled, accepted |-> <<>>, err |-> "none"])

\* what annotate_isotope leaves on the ROIs of d.rois, in their order
Annotation(h, dr) ==
    [i \in 1..Len(dr) |->
        [isotope_int_seq |-> h[dr[i]].isotope_int_seq,
         isotope_mz_seq |-> h[dr[i]].isotope_mz_seq,
         charge_state |-> h[dr[i]].charge_state,
         isotope_state |-> h[dr[i]].isotope_state]]

-----------------------------------------------------------------------------
(* Actions of roi_finder.  The scans are read cycle by cycle (one MS1 scan *)
(* and the MS2 scans up to the next MS1 scan): the loop body for an MS1    *)
(* scan reads no scan beyond them.                                         *)

trackVars == <<heap, rois, final_rois, last_ms1_idx, last_rt>>
isoVars == <<labeled_roi, idx, run, annot_before>>

\* roi_finder on a file without MS1 scan: d.ms1_idx[0] raises
FindRoisNoScan ==
    /\ pc = "start"
    /\ pc' = "error"
    /\ err' = "IndexError"
    /\ UNCHANGED <<scans, trackVars, d_rois, sum_pos, ms2_similarity, isoVars>>

\* lines 31-43
Seed(ions, tail) ==
    /\ pc = "start"
    /\ LET sc == ReadCycle(scans, ions, tail)
           alloc == loc_ms2_for_ms1_scan(sc, 0)
           st == SeedLoop(sc[1], alloc.v, 1,
                          [heap |-> <<>>, rois |-> <<>>, err |-> "none"])
       IN  /\ scans' = sc
           /\ IF alloc.err # "none"
              THEN /\ pc' = "error"
                   /\ err' = alloc.err
                   /\ UNCHANGED <<heap, rois, last_ms1_idx, last_rt>>
              ELSE IF st.err # "none"
              THEN /\ pc' = "error"
                   /\ err' = st.err
                   /\ heap' = st.heap
                   /\ UNCHANGED <<rois, last_ms1_idx, last_rt>>
              ELSE /\ pc' = "track"
                   /\ heap' = st.heap
                   /\ rois' = st.rois
                   /\ last_ms1_idx' = 0
                   /\ last_rt' = sc[1].rt
                   /\ UNCHANGED err
    /\ UNCHANGED <<final_rois, d_rois, sum_pos, ms2_similarity, isoVars>>

\* lines 46-99
ProcessScan(ions, tail) ==
    /\ pc = "track"
    /\ LET sc == ReadCycle(scans, ions, tail)
           p == Len(scans)
           st == TrackScan(sc, p, heap, rois, final_rois, last_ms1_idx, last_rt)
       IN  /\ scans' = sc
           /\ heap' = st.heap
           /\ rois' = st.rois
           /\ final_rois' = st.final_rois
           /\ IF st.err # "none"
              THEN /\ pc' = "error"
                   /\ err' = st.err
                   /\ UNCHANGED <<last_ms1_idx, last_rt>>
              ELSE /\ last_ms1_idx' = p
                   /\ last_rt' = sc[p + 1].rt
                   /\ UNCHANGED <<pc, err>>
    /\ UNCHANGED <<d_rois, sum_pos, ms2_similarity, isoVars>>

\* lines 102-105, and MSData.find_rois: self.rois = roi_finder(self, params)
Finish ==
    /\ pc = "track"
    /\ final_rois' = final_rois \o rois
    /\ d_rois' = final_rois \o rois
    /\ pc' = "found"
    /\ UNCHANGED <<scans, heap, rois, last_ms1_idx, last_rt, err, sum_pos,
                   ms2_similarity, isoVars>>

-----------------------------------------------------------------------------
(* Actions on the ROIs found *)

\* MSData.cut_rois
CutRois ==
    /\ pc = "found"
    /\ LET st == cut_rois(heap, d_rois)
       IN  /\ heap' = st.heap
           /\ d_rois' = st.rois
           /\ err' = st.err
           /\ pc' = IF st.err = "none" THEN "segmented" ELSE "error"
    /\ UNCHANGED <<scans, rois, final_rois, last_ms1_idx, last_rt, sum_pos,
                   ms2_similarity, isoVars>>

\* the ascending sequence of the elements of a set of numbers
RECURSIVE Ascending(_)
Ascending(S) ==
    IF S = {} THEN <<>>
    ELSE LET m == CHOOSE x \in S : \A y \in S : x <= y
         IN  <<m>> \o Ascending(S \ {m})

\* the lists of cut positions roi_cutter can be given for a trace of n entries:
\* up to MaxCuts positions strictly inside the trace, ascending
CutPositions(n) ==
    { Ascending(S) : S \in { T \in SUBSET (1..(n - 2)) :
                              Cardinality(T) >= 1 /\ Cardinality(T) <= MaxCuts } }

\* roi_cutter on the i-th ROI of d.rois at the given positions, the pieces
\* replacing the ROI as in cut_rois (lines 248-257)
CutAt(i, positions) ==
    /\ pc = "found"
    /\ LET cut == roi_cutter(heap, d_rois[i], positions)
       IN  /\ heap' = cut.heap
           /\ d_rois' = RemoveAt(d_rois, i) \o cut.rois
    /\ pc' = "cutdone"
    /\ UNCHANGED <<scans, rois, final_rois, last_ms1_idx, last_rt, err, sum_pos,
                   ms2_similarity, isoVars>>

\* roi.sum_roi() on the next ROI of d.rois
SumRoi ==
    /\ pc \in {"found", "cutdone", "sum"}
    /\ sum_pos < Len(d_rois)
    /\ LET st == sum_roi(heap[d_rois[sum_pos + 1]])
       IN  /\ heap' = [heap EXCEPT ![d_rois[sum_pos + 1]] = st.roi]
           /\ err' = st.err
           /\ pc' = IF st.err # "none" THEN "error"
                    ELSE IF sum_pos + 1 = Len(d_rois) THEN "summed" ELSE "sum"
    /\ sum_pos' = sum_pos + 1
    /\ UNCHANGED <<scans, rois, final_rois, d_rois, last_ms1_idx, last_rt,
                   ms2_similarity, isoVars>>

\* annotate_isotope, lines 22-27: a run starts
AnnotateStart ==
    /\ pc \in {"summed", "grouped"}
    /\ run < MaxRuns
    /\ run' = run + 1
    /\ annot_before' = [labeled |-> labeled_roi, rois |-> Annotation(heap, d_rois)]
    /\ d_rois' = SortByMz(heap, d_rois, Len(d_rois))
    /\ labeled_roi' = [i \in 1..Len(d_rois) |-> FALSE]
    /\ idx' = 0
    /\ pc' = "iso"
    /\ UNCHANGED <<scans, trackVars, err, sum_pos, ms2_similarity>>

\* annotate_isotope, lines 29-64: one round of the loop
AnnotateStep ==
    /\ pc = "iso"
    /\ idx < Len(d_rois)
    /\ LET st == AnchorPass(scans, heap, d_rois, labeled_roi, idx + 1)
       IN  /\ heap' = st.heap
           /\ labeled_roi' = st.labeled
           /\ err' = st.err
           /\ pc' = IF st.err # "none" THEN "error"
                    ELSE IF idx + 1 = Len(d_rois) THEN "grouped" ELSE "iso"
    /\ idx' = idx + 1
    /\ UNCHANGED <<scans, rois, final_rois, d_rois, last_ms1_idx, last_rt, run,
                   annot_before, sum_pos, ms2_similarity>>

-----------------------------------------------------------------------------
(* feature_detection *)

PipeIons == Ms1Ions({1, 3}, {2})

\* the files of n cycles (one MS1 scan and the MS2 scans that follow it)
RECURSIVE FilesOf(_)
FilesOf(n) ==
    IF n = 0 THEN {<<>>}
    ELSE { ReadCycle(f, c[1], c[2]) : f \in FilesOf(n - 1), c \in PipeIons \X SegTails }

Files == UNION { FilesOf(n) : n \in 1..PipeMaxCycles }

\* lines 31-33: d = raw.MSData(); d.read_raw_data(file_name, params).  For an
\* MS1 spectrum without peaks np.max raises (extract_scan_mzml, line 118).
FeatureDetectionRead(file) ==
    /\ pc = "start"
    /\ IF \E p \in 1..Len(file) : file[p].level = 1 /\ file[p].mz_seq = <<>>
       THEN /\ pc' = "error"
            /\ err' = "ValueError"
            /\ UNCHANGED scans
       ELSE /\ pc' = "read"
            /\ scans' = file
            /\ UNCHANGED err
    /\ UNCHANGED <<trackVars, d_rois, sum_pos, ms2_similarity, isoVars>>

\* line 34: d.drop_ion_by_int(), and drop_ion_by_int(self, params) has no
\* default for params: the call raises TypeError and feature_detection ends
FeatureDetectionDropIons ==
    /\ pc = "read"
    /\ pc' = "error"
    /\ err' = "TypeError"
    /\ UNCHANGED <<scans, trackVars, d_rois, sum_pos, ms2_similarity, isoVars>>

-----------------------------------------------------------------------------
(* Specifications *)

InitWith(sims) ==
    /\ scans = <<>>
    /\ heap = <<>>
    /\ rois = <<>>
    /\ final_rois = <<>>
    /\ d_rois = <<>>
    /\ last_ms1_idx = -1
    /\ last_rt = NaN
    /\ pc = "start"
    /\ err = "none"
    /\ sum_pos = 0
    /\ ms2_similarity \in sims
    /\ labeled_roi = <<>>
    /\ idx = 0
    /\ run = 0
    /\ annot_before = [labeled |-> <<>>, rois |-> <<>>]

\* roi_finder on scans with up to three ions
Init == InitWith({0})

Next ==
    \/ FindRoisNoScan
    \/ \E ions \in TrackIons, tail \in TrackTails :
          /\ 1 + Len(tail) <= MaxScans
          /\ Seed(ions, tail)
    \/ \E ions \in TrackIons, tail \in TrackTails :
          /\ Len(scans) + 1 + Len(tail) <= MaxScans
          /\ ProcessScan(ions, tail)
    \/ Finish

Spec == Init /\ [][Next]_vars

\* the same, run to its end: the loop over the MS1 scans and the return after
\* it are steps of one call, which goes on as long as it can
SpecRun == Init /\ [][Next]_vars /\ WF_vars(Next)

\* roi_finder on the trace of one ion with its MS2 scans, then cut_rois
InitSeg == InitWith(SimValues)

NextSeg ==
    \/ FindRoisNoScan
    \/ \E ions \in SegIons, tail \in SegTails :
          /\ 1 + Len(tail) <= SegMaxScans
          /\ Seed(ions, tail)
    \/ \E ions \in SegIons, tail \in SegTails :
          /\ Len(scans) + 1 + Len(tail) <= SegMaxScans
          /\ ProcessScan(ions, tail)
    \/ Finish
    \/ CutRois

SpecSeg == InitSeg /\ [][NextSeg]_vars

\* the life of a ROI: roi_finder, then roi_cutter on one ROI, then sum_roi
NextLife ==
    \/ FindRoisNoScan
    \/ \E ions \in LifeIons, tail \in SegTails :
          /\ 1 + Len(tail) <= LifeMaxScans
          /\ Seed(ions, tail)
    \/ \E ions \in LifeIons, tail \in SegTails :
          /\ Len(scans) + 1 + Len(tail) <= LifeMaxScans
          /\ ProcessScan(ions, tail)
    \/ Finish
    \/ \E i \in 1..Len(d_rois) :
          \E positions \in CutPositions(Len(heap[d_rois[i]].int_seq)) :
              CutAt(i, positions)
    \/ SumRoi

SpecLife == Init /\ [][NextLife]_vars

\* roi_finder on MS1 scans, sum_roi on every ROI, then annotate_isotope, twice
NextIso ==
    \/ FindRoisNoScan
    \/ \E ions \in IsoIons :
          /\ 1 <= IsoMaxScans
          /\ Seed(ions, <<>>)
    \/ \E ions \in IsoIons :
          /\ Len(scans) + 1 <= IsoMaxScans
          /\ ProcessScan(ions, <<>>)
    \/ Finish
    \/ SumRoi
    \/ AnnotateStart
    \/ AnnotateStep

SpecIso == Init /\ [][NextIso]_vars

\* the same on longer runs of scans that hold an ion and its isotopes
NextGen ==
    \/ FindRoisNoScan
    \/ \E ions \in GenIons :
          /\ 1 <= GenMaxScans
          /\ Seed(ions, <<>>)
    \/ \E ions \in GenIons :
          /\ Len(scans) + 1 <= GenMaxScans
          /\ ProcessScan(ions, <<>>)
    \/ Finish
    \/ SumRoi
    \/ AnnotateStart
    \/ AnnotateStep

SpecGen == Init /\ [][NextGen]_vars

\* roi_finder on one MS1 scan with its ions in any order, sum_roi on every
\* ROI, then annotate_isotope
NextChg ==
    \/ FindRoisNoScan
    \/ \E ions \in ChgIons : Seed(ions, <<>>)
    \/ Finish
    \/ SumRoi
    \/ AnnotateStart
    \/ AnnotateStep

SpecChg == Init /\ [][NextChg]_vars

\* roi_finder on MS1 scans with intensities that can be 0, then sum_roi
NextZero ==
    \/ FindRoisNoScan
    \/ \E ions \in ZeroIons : Seed(ions, <<>>)
    \/ \E ions \in ZeroIons :
          /\ Len(scans) + 1 <= ZeroMaxScans
          /\ ProcessScan(ions, <<>>)
    \/ Finish
    \/ SumRoi

SpecZero == Init /\ [][NextZero]_vars

\* roi_finder on scans that need not be well formed
NextMal ==
    \/ FindRoisNoScan
    \/ \E ions \in MalIons : Seed(ions, <<>>)
    \/ \E ions \in MalIons :
          /\ Len(scans) + 1 <= MalMaxScans
          /\ ProcessScan(ions, <<>>)
    \/ Finish

SpecMal == Init /\ [][NextMal]_vars

\* feature_detection on a file
NextPipe ==
    \/ \E file \in Files : FeatureDetectionRead(file)
    \/ FeatureDetectionDropIons

SpecPipe == Init /\ [][NextPipe]_vars

-----------------------------------------------------------------------------
(* Properties of roi_finder, checked under Spec *)

RoiIds == 1..Len(heap)

\* the entries (ROI, position) that record the ion (mz, intensity) of scan p
Received(p, mz, intensity) ==
    { e \in UNION { { <<r, j>> : j \in 1..Len(heap[r].scan_idx_seq) } : r \in RoiIds } :
        /\ heap[e[1]].scan_idx_seq[e[2]] = p
        /\ heap[e[1]].mz_seq[e[2]] = mz
        /\ heap[e[1]].int_seq[e[2]] = intensity }

\* the number of padding entries (NaN m/z) at the end of a trace
RECURSIVE TrailingPads(_, _)
TrailingPads(mzs, n) ==
    IF n = 0 \/ mzs[n] # NaN THEN 0 ELSE 1 + TrailingPads(mzs, n - 1)

\* C1: every ion of every MS1 scan processed is the trace entry, at that scan,
\* of exactly one ROI: it is never dropped and never taken by two ROIs.
C1_EveryIonInExactlyOneRoi ==
    pc \in {"track", "found"} =>
        \A p \in 0..(Len(scans) - 1) :
            scans[p + 1].level = 1 =>
                \A k \in 1..Len(scans[p + 1].mz_seq) :
                    Cardinality(Received(p, scans[p + 1].mz_seq[k],
                                         scans[p + 1].int_seq[k])) = 1

\* an ion extended one ROI while another ROI near it had to be padded, and
\* an ion nobody claimed started a new ROI in the same scan
C1_Witness ==
    /\ pc = "track"
    /\ \E a, b, c \in RoiIds :
          /\ a # b
          /\ AbsDiff(heap[a].mz, heap[b].mz) < mz_tol_ms1
          /\ Len(heap[a].int_seq) >= 2
          /\ heap[a].int_seq[Len(heap[a].int_seq)] > 0
          /\ heap[a].int_seq[Len(heap[a].int_seq) - 1] > 0
          /\ heap[b].gap_counter = 1
          /\ heap[c].scan_idx_seq = <<last_ms1_idx - 1, last_ms1_idx>>

\* C2: after each MS1 scan every ROI in progress has gap_counter <= roi_gap,
\* a ROI is in the final set during tracking only with gap_counter > roi_gap,
\* and a ROI whose trace ends with roi_gap + 1 padding entries is in the final
\* set and not in progress.
C2_GapClosure ==
    /\ \A i \in 1..Len(rois) : heap[rois[i]].gap_counter <= roi_gap
    /\ pc = "track" =>
          \A i \in 1..Len(final_rois) : heap[final_rois[i]].gap_counter > roi_gap
    /\ \A r \in RoiIds :
          /\ pc \in {"track", "found"} =>
                heap[r].gap_counter = TrailingPads(heap[r].mz_seq, Len(heap[r].mz_seq))
          /\ TrailingPads(heap[r].mz_seq, Len(heap[r].mz_seq)) >= roi_gap + 1 =>
                InSeq(r, final_rois) /\ ~InSeq(r, rois)

\* a ROI has just been closed by the gap rule while another one goes on with
\* the largest gap allowed
C2_Witness ==
    /\ pc = "track"
    /\ \E i \in 1..Len(final_rois) :
          /\ heap[final_rois[i]].gap_counter = roi_gap + 1
          /\ heap[final_rois[i]].scan_idx_seq[Len(heap[final_rois[i]].scan_idx_seq)]
                = last_ms1_idx
    /\ \E i \in 1..Len(rois) : heap[rois[i]].gap_counter = roi_gap

\* C5: roi_finder never raises, whatever the scan sequence (no MS1 scan at
\* all, MS1 scans without ions).
C5_RoiFinderTotal == pc # "error"

\* C7: a ROI in the final set is never changed again (no entry, no MS2), and
\* an ion of a later scan near a finalized ROI that no ROI in progress matches
\* starts a new ROI made of the zero before it and the ion itself.
C7_FinalRoiFrozen ==
    [][ /\ \A i \in 1..Len(final_rois) :
              /\ Len(final_rois') >= i
              /\ final_rois'[i] = final_rois[i]
              /\ heap'[final_rois[i]] = heap[final_rois[i]]
        /\ (pc = "track" /\ pc' = "track") =>
              LET s == scans'[Len(scans) + 1]
              IN  \A k \in 1..Len(s.mz_seq) :
                    ( /\ \E i \in 1..Len(final_rois) :
                            AbsDiff(heap[final_rois[i]].mz, s.mz_seq[k]) < mz_tol_ms1
                      /\ \A i \in 1..Len(rois) :
                            AbsDiff(heap[rois[i]].mz, s.mz_seq[k]) >= mz_tol_ms1 )
                    => \E r \in (Len(heap) + 1)..Len(heap') :
                          /\ InSeq(r, rois')
                          /\ heap'[r].scan_idx_seq = <<last_ms1_idx, s.scan>>
                          /\ heap'[r].mz_seq = <<s.mz_seq[k], s.mz_seq[k]>>
                          /\ heap'[r].int_seq = <<0, s.int_seq[k]>>
      ]_vars

\* an ion came back after its ROI was finalized and started a new ROI
C7_Witness ==
    /\ pc = "track"
    /\ \E i \in 1..Len(final_rois), j \in 1..Len(rois) :
          /\ heap[final_rois[i]].mz = heap[rois[j]].mz
          /\ heap[rois[j]].scan_idx_seq = <<last_ms1_idx - 1, last_ms1_idx>>

-----------------------------------------------------------------------------
(* Properties of the life of a ROI, checked under SpecLife *)

\* C6: the four per-scan arrays of every ROI have the same length, after its
\* creation and after every extend_roi, roi_cutter/subset_roi and sum_roi.
C6_ArraysSameLength ==
    \A r \in RoiIds :
        /\ Len(heap[r].rt_seq) = Len(heap[r].scan_idx_seq)
        /\ Len(heap[r].mz_seq) = Len(heap[r].scan_idx_seq)
        /\ Len(heap[r].int_seq) = Len(heap[r].scan_idx_seq)

\* a ROI has been extended, cut into pieces, and a piece whose zero tail is
\* trimmed has been summarized
C6_Witness ==
    /\ pc = "summed"
    /\ Len(heap) > Len(final_rois)
    /\ \E i \in 1..Len(d_rois) :
          /\ d_rois[i] > Len(final_rois)
          /\ heap[d_rois[i]].scan_number >= 0
          /\ heap[d_rois[i]].gap_counter >= 2
          /\ Len(heap[d_rois[i]].int_seq) >= 2
          /\ heap[d_rois[i]].int_seq[Len(heap[d_rois[i]].int_seq) - 1] # 0

-----------------------------------------------------------------------------
(* Properties of the segmentation, checked under SpecSeg *)

\* fewer than 2 attached MS2 spectra, or fewer than min_ion_num points with a
\* non-zero intensity
Ineligible(roi) ==
    \/ Len(roi.ms2_seq) < 2
    \/ Cardinality({k \in 1..Len(roi.int_seq) : roi.int_seq[k] > 0}) < min_ion_num

\* an interior strict local minimum with an attached MS2 on each side
HasSplitMinimum(roi) ==
    \E m \in 2..(Len(roi.int_seq) - 1) :
        /\ roi.int_seq[m] < roi.int_seq[m - 1]
        /\ roi.int_seq[m] < roi.int_seq[m + 1]
        /\ \E k \in 1..Len(roi.ms2_seq) :
              roi.ms2_seq[k] > roi.scan_idx_seq[1] /\ roi.ms2_seq[k] < roi.scan_idx_seq[m]
        /\ \E k \in 1..Len(roi.ms2_seq) :
              /\ roi.ms2_seq[k] > roi.scan_idx_seq[m]
              /\ roi.ms2_seq[k] < roi.scan_idx_seq[Len(roi.scan_idx_seq)]

\* the number of times a ROI is in a list
Occurrences(r, s) == Cardinality({k \in 1..Len(s) : s[k] = r})

\* C4: for a ROI with fewer than 2 MS2 spectra or fewer than min_ion_num
\* non-zero points find_roi_cut returns no cut position, and after cut_rois the
\* ROI is still in the collection, once, and nothing was made out of it.
C4_IneligibleNeverSplit ==
    /\ \A r \in RoiIds :
          Ineligible(heap[r]) => find_roi_cut(heap[r]) = [positions |-> <<>>, err |-> "none"]
    /\ pc = "segmented" =>
          \A i \in 1..Len(final_rois) :
              Ineligible(heap[final_rois[i]]) => Occurrences(final_rois[i], d_rois) = 1

\* cut_rois has run on a ROI too short to be cut that has a local minimum with
\* an MS2 on each side
C4_Witness ==
    /\ pc = "segmented"
    /\ \E i \in 1..Len(d_rois) :
          /\ Len(heap[d_rois[i]].ms2_seq) >= 2
          /\ Ineligible(heap[d_rois[i]])
          /\ HasSplitMinimum(heap[d_rois[i]])

\* C8: a ROI for which find_roi_cut confirms no cut position is the same
\* object in the collection after cut_rois, with the same arrays, intensities
\* and MS2 list.
C8_NoCutLeavesRoiUnchanged ==
    [][ (pc = "found" /\ pc' # "found") =>
            \A i \in 1..Len(d_rois) :
                find_roi_cut(heap[d_rois[i]]) = [positions |-> <<>>, err |-> "none"]
                => /\ Occurrences(d_rois[i], d_rois') = 1
                   /\ heap'[d_rois[i]] = heap[d_rois[i]]
      ]_vars

\* cut_rois has run on a ROI that could be cut and has a local minimum, but
\* no MS2 on one of its sides
C8_Witness ==
    /\ pc = "segmented"
    /\ \E i \in 1..Len(d_rois) :
          /\ ~Ineligible(heap[d_rois[i]])
          /\ LocalMinima(heap[d_rois[i]].int_seq, 1) # <<>>
          /\ ~HasSplitMinimum(heap[d_rois[i]])

\* C10: a ROI that can be cut, with one interior strict local minimum and an
\* MS2 on each side of it, is replaced by two ROIs split at the minimum, each
\* with the MS2 of its side, when the similarity is below ms2_sim_tol, and is
\* kept when it is not.
C10_SplitAtConfirmedMinimum ==
    (pc \in {"segmented", "error"} /\ d_rois # <<>>) =>
        \A i \in 1..Len(final_rois) :
            LET r == final_rois[i]
                roi == heap[r]
                n == Len(roi.scan_idx_seq)
                mins == LocalMinima(roi.int_seq, 1)
                m == mins[1] + 1
            IN  (~Ineligible(roi) /\ Len(mins) = 1 /\ HasSplitMinimum(roi)) =>
                    IF ms2_similarity < ms2_sim_tol
                    THEN /\ ~InSeq(r, d_rois)
                         /\ \E a, b \in 1..Len(d_rois) :
                               /\ a # b
                               /\ heap[d_rois[a]].scan_idx_seq = SubSeq(roi.scan_idx_seq, 1, m)
                               /\ heap[d_rois[b]].scan_idx_seq = SubSeq(roi.scan_idx_seq, m, n)
                               /\ heap[d_rois[a]].ms2_seq =
                                    Ms2Between(roi, roi.scan_idx_seq[1], roi.scan_idx_seq[m])
                               /\ heap[d_rois[b]].ms2_seq =
                                    Ms2Between(roi, roi.scan_idx_seq[m], roi.scan_idx_seq[n])
                    ELSE Occurrences(r, d_rois) = 1

-----------------------------------------------------------------------------
(* Properties of annotate_isotope, checked under SpecIso *)

\* the positions of d.rois that the anchor at position a accepts
AcceptedBy(a) ==
    LET st == AnchorPass(scans, heap, d_rois, [i \in 1..Len(d_rois) |-> FALSE], a)
    IN  {st.accepted[k] : k \in 1..Len(st.accepted)}

\* the anchors of the current run: the positions the loop has passed without
\* finding them consumed
Anchors == {a \in 1..idx : ~labeled_roi[a]}

NoSharedChild ==
    (run >= 1 /\ pc \in {"iso", "grouped", "error"}) =>
        \A a, b \in Anchors : a # b => AcceptedBy(a) \cap AcceptedBy(b) = {}

\* C3: within a run of annotate_isotope a consumed mark never goes back from
\* true to false, and no ROI is accepted as a child by two anchors.
C3_ConsumedOnce ==
    [][ /\ (pc = "iso" /\ run' = run) =>
              \A i \in 1..Len(labeled_roi) : labeled_roi[i] => labeled_roi'[i]
        /\ NoSharedChild'
      ]_vars

\* C9: a second run of annotate_isotope on the collection it has annotated
\* gives the same anchors, children, generation indices and charge states.
C9_SecondRunSame ==
    (pc = "grouped" /\ run >= 2) =>
        annot_before = [labeled |-> labeled_roi, rois |-> Annotation(heap, d_rois)]

\* the second run is over, and it has an anchor with an accepted child
C9_Witness ==
    /\ pc = "grouped"
    /\ run = 2
    /\ \E i \in 1..Len(d_rois) :
          /\ labeled_roi[i]
          /\ heap[d_rois[i]].isotope_state >= 1
    /\ \E i \in 1..Len(d_rois) : Len(heap[d_rois[i]].isotope_mz_seq) >= 2

-----------------------------------------------------------------------------
(* Properties of the summarization, checked under SpecLife *)

\* C11: for every ROI whose intensities are all non-negative find_roi_area
\* gives a peak_area >= 0, and the peak_area sum_roi has stored is >= 0.
C11_PeakAreaNonNegative ==
    \A r \in RoiIds :
        (\A k \in 1..Len(heap[r].int_seq) : heap[r].int_seq[k] >= 0) =>
            /\ find_roi_area(heap[r]).peak_area >= 0
            /\ heap[r].scan_number >= 0 => heap[r].peak_area >= 0

\* sum_roi has stored a positive area for a trace with a gap inside
C11_Witness ==
    /\ pc = "summed"
    /\ \E r \in RoiIds :
          /\ heap[r].scan_number >= 0
          /\ heap[r].peak_area > 0
          /\ \E k \in 2..(Len(heap[r].int_seq) - 1) : heap[r].int_seq[k] = 0

-----------------------------------------------------------------------------
(* Properties of the claim order of roi_finder, checked under Spec *)

\* the positions of rois whose ROI has the ion k of scan s as its nearest ion,
\* within mz_tol_ms1
Claimers(s, k) ==
    { i \in 1..Len(rois) :
        LET mz_diff == [j \in 1..Len(s.mz_seq) |-> AbsDiff(heap[rois[i]].mz, s.mz_seq[j])]
        IN  ArgMin(mz_diff) = k /\ mz_diff[k] < mz_tol_ms1 }

\* the last entry of the trace of a ROI: <<scan index, m/z, intensity>>
LastEntry(roi) ==
    <<roi.scan_idx_seq[Len(roi.scan_idx_seq)], roi.mz_seq[Len(roi.mz_seq)],
      roi.int_seq[Len(roi.int_seq)]>>

\* C12: when an ion is the nearest ion within mz_tol of several ROIs in
\* progress, the ROI created first is extended with it and the others get a
\* padding entry; and the ROIs that stay in progress keep their order.
C12_FirstRegisteredWins ==
    [][ (pc = "track" /\ pc' = "track") =>
          LET s == scans'[Len(scans) + 1]
          IN  /\ \A k \in 1..Len(s.mz_seq) :
                    \A i \in Claimers(s, k) :
                        IF \A j \in Claimers(s, k) : rois[i] <= rois[j]
                        THEN LastEntry(heap'[rois[i]]) = <<s.scan, s.mz_seq[k], s.int_seq[k]>>
                        ELSE LastEntry(heap'[rois[i]]) = <<s.scan, NaN, 0>>
              /\ \A a, b \in 1..Len(rois) :
                    (a < b /\ InSeq(rois[a], rois') /\ InSeq(rois[b], rois')) =>
                        \E x, y \in 1..Len(rois') :
                            x < y /\ rois'[x] = rois[a] /\ rois'[y] = rois[b]
      ]_vars

\* of two ROIs in progress near the same ion the older one has taken the ion,
\* which is the very m/z of the younger one, and the younger one is padded;
\* a third ROI has been moved to the final set in between
C12_Witness ==
    /\ pc = "track"
    /\ final_rois # <<>>
    /\ \E a, b \in 1..Len(rois) :
          /\ a < b
          /\ rois[a] < rois[b]
          /\ heap[rois[a]].mz # heap[rois[b]].mz
          /\ LastEntry(heap[rois[a]]) = <<last_ms1_idx, heap[rois[b]].mz, 2>>
          /\ LastEntry(heap[rois[b]]) = <<last_ms1_idx, NaN, 0>>

\* the ROIs that the step has created for the ion k of the scan s
SpawnedFor(s, k) ==
    { r \in (Len(heap) + 1)..Len(heap') :
        heap'[r].mz = s.mz_seq[k] /\ LastEntry(heap'[r]) = <<s.scan, s.mz_seq[k], s.int_seq[k]>> }

\* C13 as claimed: a new ROI is created for an ion only if no ROI in progress
\* has an m/z within mz_tol of the m/z of the ion.
C13_SpawnOnlyIfNoRoiNear ==
    [][ (pc = "track" /\ pc' = "track") =>
          LET s == scans'[Len(scans) + 1]
          IN  \A k \in 1..Len(s.mz_seq) :
                SpawnedFor(s, k) # {} =>
                    \A i \in 1..Len(rois) :
                        AbsDiff(heap[rois[i]].mz, s.mz_seq[k]) >= mz_tol_ms1
      ]_vars

\* C13 amended: a new ROI is created for an ion only if no ROI in progress has
\* that ion as its nearest ion of the scan within mz_tol.
C13_SpawnOnlyIfUnclaimed ==
    [][ (pc = "track" /\ pc' = "track") =>
          LET s == scans'[Len(scans) + 1]
          IN  \A k \in 1..Len(s.mz_seq) :
                SpawnedFor(s, k) # {} => Claimers(s, k) = {}
      ]_vars

\* the last scan has started a ROI for an ion within mz_tol of an older ROI,
\* which has taken a nearer ion of that scan
C13_Witness ==
    /\ pc = "track"
    /\ \E a, n \in 1..Len(rois) :
          /\ rois[a] < rois[n]
          /\ heap[rois[n]].scan_idx_seq = <<last_ms1_idx - 1, last_ms1_idx>>
          /\ heap[rois[n]].int_seq[1] = 0
          /\ AbsDiff(heap[rois[a]].mz, heap[rois[n]].mz) < mz_tol_ms1
          /\ Len(heap[rois[a]].int_seq) >= 2
          /\ LastEntry(heap[rois[a]]) = <<last_ms1_idx, heap[rois[a]].mz, 2>>

-----------------------------------------------------------------------------
(* Properties of the generation index, checked under SpecGen *)

\* C14: the k-th ROI that an anchor accepts gets the generation index k,
\* whatever number of earlier isotopes of the anchor found no ROI.
C14_GenerationIsAcceptedRank ==
    [][ (pc = "iso" /\ ~labeled_roi[idx + 1]) =>
          LET st == AnchorPass(scans, heap, d_rois, labeled_roi, idx + 1)
          IN  \A k \in 1..Len(st.accepted) :
                (\A m \in (k + 1)..Len(st.accepted) : st.accepted[m] # st.accepted[k])
                    => heap'[d_rois[st.accepted[k]]].isotope_state = k
      ]_vars

-----------------------------------------------------------------------------
(* Properties of the length, checked under SpecLife *)

\* C15: after sum_roi the length of a ROI is the number of the entries of its
\* trace that have a non-zero intensity.
C15_LengthCountsNonZero ==
    \A r \in RoiIds :
        heap[r].scan_number >= 0 => heap[r].length = count_nonzero(heap[r].int_seq)

-----------------------------------------------------------------------------
(* Properties of feature_detection, checked under SpecPipe *)

\* C16: feature_detection runs its passes in order (no pass fails for the way
\* it is called), and when the isotope grouping reads the ROIs every one of
\* them has been summarized.
C16_PassesInOrder ==
    /\ pc = "error" => err # "TypeError"
    /\ pc \in {"iso", "grouped"} =>
          \A i \in 1..Len(d_rois) : heap[d_rois[i]].scan_number >= 0

-----------------------------------------------------------------------------
(* Properties of the entries of a trace, checked under Spec *)

\* C17: every ROI returned by roi_finder begins with a zero-intensity entry;
\* that entry carries the index and retention time of the MS1 scan before the
\* one of the second entry, which is the entry of the ion that created the ROI.
C17_LeadingZero ==
    pc = "found" =>
        \A i \in 1..Len(final_rois) :
            LET roi == heap[final_rois[i]]
            IN  /\ roi.int_seq[1] = 0
                /\ Len(roi.int_seq) >= 2
                /\ roi.int_seq[2] > 0
                /\ roi.mz_seq[2] = roi.mz
                /\ scans[roi.scan_idx_seq[1] + 1].level = 1
                /\ roi.rt_seq[1] = scans[roi.scan_idx_seq[1] + 1].rt
                /\ roi.scan_idx_seq[1] < roi.scan_idx_seq[2]
                /\ \A p \in (roi.scan_idx_seq[1] + 1)..(roi.scan_idx_seq[2] - 1) :
                      scans[p + 1].level = 2

\* C18: in every ROI trace, an entry that records no detected ion at its scan
\* (intensity 0: the padding entry of a miss and the backfilled leading entry)
\* has m/z NaN.
C18_NonDetectionIsNaN ==
    \A r \in RoiIds :
        \A k \in 1..Len(heap[r].int_seq) :
            heap[r].int_seq[k] = 0 => heap[r].mz_seq[k] = NaN

-----------------------------------------------------------------------------
(* Properties of roi_finder on malformed scans, checked under SpecMal *)

Malformed(s) ==
    \/ Len(s.mz_seq) # Len(s.int_seq)
    \/ \E k \in 1..Len(s.mz_seq) : s.mz_seq[k] = NaN

\* C19: once roi_finder has read an MS1 scan whose m/z and intensity arrays
\* differ in length or that holds a NaN m/z it has failed with an error (it
\* neither goes on nor returns), and no ROI it returns has a detection
\* (intensity above 0) with m/z NaN.
C19_MalformedFailsFast ==
    /\ (\E p \in 1..Len(scans) : scans[p].level = 1 /\ Malformed(scans[p]))
          => pc = "error"
    /\ pc = "found" =>
          \A i \in 1..Len(final_rois) :
              \A k \in 1..Len(heap[final_rois[i]].int_seq) :
                  heap[final_rois[i]].int_seq[k] > 0
                      => heap[final_rois[i]].mz_seq[k] # NaN

-----------------------------------------------------------------------------
(* Properties of the correlation, checked under SpecGen *)

\* the intensities of roi at the scans that other has too
CommonInts(roi, other) ==
    SelectSeq([i \in 1..Len(roi.int_seq) |-> <<roi.scan_idx_seq[i], roi.int_seq[i]>>],
              LAMBDA e : \E k \in 1..Len(other.scan_idx_seq) :
                            other.scan_idx_seq[k] = e[1])

\* two or more common scans, and one of the two ROIs is constant over them
ZeroVariance(roi1, roi2) ==
    LET int1 == CommonInts(roi1, roi2)
        int2 == CommonInts(roi2, roi1)
    IN  /\ Len(int1) >= 2
        /\ \/ \A i \in 1..Len(int1) : int1[i][2] = int1[1][2]
           \/ \A i \in 1..Len(int2) : int2[i][2] = int2[1][2]

\* the first ROI that the anchor at position a compares itself with
\* (0 when there is none)
FirstCandidate(a) ==
    LET r == heap[d_rois[a]]
        isotopes == find_iso_from_scan(PyGet(scans, r.scan_number), r.mz).isotopes
        found == SelectSeq([j \in 1..Len(isotopes) |-> j],
                     LAMBDA j : Len(Candidates(heap, d_rois, isotopes[j], r.scan_number)) > 0)
    IN  IF found = <<>> THEN 0
        ELSE PickCandidate(heap, d_rois,
                 Candidates(heap, d_rois, isotopes[found[1]], r.scan_number),
                 r.scan_number)

\* C20: when the anchor or the candidate is constant over their common scans
\* (two or more), annotate_isotope goes on without an error and neither
\* accepts the candidate nor marks it consumed.
C20_ZeroVarianceNotCorrelated ==
    [][ ( /\ pc = "iso"
          /\ ~labeled_roi[idx + 1]
          /\ PyInRange(scans, heap[d_rois[idx + 1]].scan_number)
          /\ PyGet(scans, heap[d_rois[idx + 1]].scan_number).level = 1
          /\ FirstCandidate(idx + 1) # 0
          /\ ZeroVariance(heap[d_rois[idx + 1]], heap[d_rois[FirstCandidate(idx + 1)]]) )
        => LET c == FirstCandidate(idx + 1)
           IN  /\ pc' # "error"
               /\ labeled_roi'[c] = labeled_roi[c]
               /\ heap'[d_rois[c]].isotope_state = heap[d_rois[c]].isotope_state
      ]_vars

-----------------------------------------------------------------------------
(* Properties of the MS2 attachment, checked under Spec *)

\* the index of the MS1 scan that the MS2 scan of index p follows
Ms1Before(p) ==
    CHOOSE m \in 0..(p - 1) :
        /\ scans[m + 1].level = 1
        /\ \A q \in (m + 1)..(p - 1) : scans[q + 1].level = 2

\* the ROIs that hold the MS2 scan of index p
Holders(p) == { r \in RoiIds : InSeq(p, heap[r].ms2_seq) }

\* C21: every MS2 scan that follows an MS1 scan with ions that roi_finder has
\* read is attached to exactly one ROI, the ROI whose trace has, at that MS1
\* scan, the ion nearest to the precursor m/z of the MS2 scan.
C21_Ms2AttachedToNearest ==
    pc \in {"track", "found", "error"} =>
        \A p \in 1..(Len(scans) - 1) :
            (scans[p + 1].level = 2 /\ scans[Ms1Before(p) + 1].mz_seq # <<>>) =>
                LET s == scans[Ms1Before(p) + 1]
                    near == ArgMin([k \in 1..Len(s.mz_seq) |->
                                       MzDiff(s.mz_seq[k], scans[p + 1].precs_mz)])
                IN  /\ Cardinality(Holders(p)) = 1
                    /\ \A r \in Holders(p) :
                          \E k \in 1..Len(heap[r].scan_idx_seq) :
                              /\ heap[r].scan_idx_seq[k] = s.scan
                              /\ heap[r].mz_seq[k] = s.mz_seq[near]
                              /\ heap[r].int_seq[k] = s.int_seq[near]

-----------------------------------------------------------------------------
(* Properties of the isotope-of relation, checked under SpecGen *)

\* C22: a consumed ROI is skipped when the pass reaches it (nothing is
\* written), and every ROI that an anchor accepts has an m/z strictly greater
\* than the anchor's and a position after the anchor's in the sorted list, so
\* the relation has no cycle and a child is consumed before it is reached.
C22_ChildrenAboveAnchor ==
    [][ pc = "iso" =>
          LET a == idx + 1
              anchor == heap'[d_rois[a]]
          IN  /\ labeled_roi[a] => (heap' = heap /\ labeled_roi' = labeled_roi)
              /\ \A c \in 1..Len(d_rois) :
                    (labeled_roi'[c] /\ ~labeled_roi[c]) =>
                        (c > a /\ heap[d_rois[c]].mz > heap[d_rois[a]].mz)
              /\ ~labeled_roi[a] =>
                    \A k \in 2..Len(anchor.isotope_mz_seq) :
                        anchor.isotope_mz_seq[k] > anchor.mz
      ]_vars

\* the pass has skipped a ROI that an earlier anchor accepted
C22_Witness ==
    /\ pc \in {"iso", "grouped"}
    /\ run = 1
    /\ \E a, c \in 1..idx :
          /\ a < c
          /\ ~labeled_roi[a]
          /\ labeled_roi[c]
          /\ Len(heap[d_rois[a]].isotope_mz_seq) >= 2
          /\ heap[d_rois[a]].isotope_mz_seq[2] = heap[d_rois[c]].mz
          /\ heap[d_rois[c]].isotope_state >= 1
          /\ heap[d_rois[c]].isotope_mz_seq = <<>>

-----------------------------------------------------------------------------
(* Properties of the charge state, checked under SpecChg *)

\* md is within 0.012 half-units of n half-units of the isotope spacing
NearMultiple(md, n) ==
    /\ AbsDiff(2 * md, n * iso_mass_diff) < iso_mass_diff
    /\ 1000 * AbsDiff(2 * md, n * iso_mass_diff) < iso_tol_thousandths * iso_mass_diff

\* the ion is 0.04 to 10 Da above mz, near an odd multiple of 1.003355 / 2
OddCompanion(ion, mz) ==
    /\ ion - mz >= iso_md_min
    /\ ion - mz <= iso_md_max
    /\ \E n \in 1..21 : n % 2 = 1 /\ NearMultiple(ion - mz, n)

\* the anchors that the running pass of annotate_isotope has handled
HandledAnchors ==
    IF pc \in {"iso", "grouped"} /\ run >= 1
    THEN { a \in 1..idx : ~labeled_roi[a] }
    ELSE {}

\* C23: an anchor has charge state 2 exactly when an ion of its apex scan is
\* 0.04 to 10 Da above it near an odd multiple of 1.003355 / 2, and charge
\* state 1 otherwise.
C23_ChargeTwoIffOddCompanion ==
    \A a \in HandledAnchors :
        LET r == heap[d_rois[a]]
            s == scans[r.scan_number + 1]
        IN  r.charge_state =
                IF \E k \in 1..Len(s.mz_seq) : OddCompanion(s.mz_seq[k], r.mz)
                THEN 2 ELSE 1

\* the scan with its (mz, intensity) pairs in the order f
Reordered(s, f) ==
    [s EXCEPT !.mz_seq = [k \in 1..Len(s.mz_seq) |-> s.mz_seq[f[k]]],
              !.int_seq = [k \in 1..Len(s.int_seq) |-> s.int_seq[f[k]]]]

Orders(n) == { f \in [1..n -> 1..n] : \A i, j \in 1..n : i # j => f[i] # f[j] }

SetOf(x) == { x[k] : k \in 1..Len(x) }

\* C30: the charge state recorded for an anchor and the isotopes found for it
\* are those of every other order of the pairs of its apex scan, and every
\* ion 0.04 to 10 Da above the anchor near a multiple of 1.003355 / 2 is among
\* the isotopes.
C30_IsotopesIgnoreOrder ==
    \A a \in HandledAnchors :
        LET r == heap[d_rois[a]]
            s == scans[r.scan_number + 1]
            found == find_iso_from_scan(s, r.mz)
        IN  /\ r.charge_state = found.charge_state
            /\ \A f \in Orders(Len(s.mz_seq)) :
                  LET other == find_iso_from_scan(Reordered(s, f), r.mz)
                  IN  /\ other.charge_state = r.charge_state
                      /\ SetOf(other.isotopes) = SetOf(found.isotopes)
            /\ \A k \in 1..Len(s.mz_seq) :
                  ( /\ s.mz_seq[k] - r.mz >= iso_md_min
                    /\ s.mz_seq[k] - r.mz <= iso_md_max
                    /\ \E n \in 1..21 : NearMultiple(s.mz_seq[k] - r.mz, n) )
                  => s.mz_seq[k] \in SetOf(found.isotopes)

-----------------------------------------------------------------------------
(* Properties of the choice of the children, checked under SpecGen *)

\* the positions of the ROIs within 0.005 Da of iso and within 2 scans of the
\* apex scan of the anchor at position a
NearIsotope(a, iso) ==
    { i \in 1..Len(d_rois) :
        /\ AbsDiff(heap[d_rois[i]].mz, iso) < iso_mz_tol
        /\ AbsDiff(heap[d_rois[i]].scan_number, heap[d_rois[a]].scan_number)
              <= iso_scan_tol }

\* c is among them one with the smallest apex scan difference
NearestInScan(a, iso, c) ==
    /\ c \in NearIsotope(a, iso)
    /\ \A i \in NearIsotope(a, iso) :
          AbsDiff(heap[d_rois[c]].scan_number, heap[d_rois[a]].scan_number)
            <= AbsDiff(heap[d_rois[i]].scan_number, heap[d_rois[a]].scan_number)

\* the number of the scan indices that the two traces share
CommonScans(roi1, roi2) ==
    Cardinality(SetOf(roi1.scan_idx_seq) \cap SetOf(roi2.scan_idx_seq))

-----------------------------------------------------------------------------
(* Properties of the end of roi_finder, checked under SpecRun *)

\* C25: roi_finder comes to its return, and the list it returns holds every
\* ROI it has created exactly once (those closed by the gap rule and those
\* still in progress after the last MS1 scan).
C25_EveryRoiReturnedOnce ==
    /\ [](pc = "found" => \A r \in RoiIds : Occurrences(r, final_rois) = 1)
    /\ <>(pc = "found")

-----------------------------------------------------------------------------
(* Properties of the representative height, checked under SpecLife *)

\* the positions of the (up to three) largest non-zero intensities of x
TopThree(x) ==
    LET nz == { i \in 1..Len(x) : x[i] # 0 }
        n == IF Cardinality(nz) < 3 THEN Cardinality(nz) ELSE 3
    IN  CHOOSE S \in SUBSET nz :
            /\ Cardinality(S) = n
            /\ \A i \in S : \A j \in nz \ S : x[j] <= x[i]

RECURSIVE SumOver(_, _)
SumOver(x, S) ==
    IF S = {} THEN 0
    ELSE LET i == CHOOSE k \in S : TRUE IN x[i] + SumOver(x, S \ {i})

\* C26: a summarized ROI has as peak_height_by_ave the (integer) mean of its
\* three largest non-zero intensities, of all of them when they are fewer.
C26_HeightIsTopThreeMean ==
    \A r \in RoiIds :
        (heap[r].scan_number >= 0 /\ count_nonzero(heap[r].int_seq) > 0) =>
            /\ heap[r].peak_height_by_ave # NaN
            /\ heap[r].peak_height_by_ave =
                  SumOver(heap[r].int_seq, TopThree(heap[r].int_seq))
                      \div Cardinality(TopThree(heap[r].int_seq))

-----------------------------------------------------------------------------
(* Properties of the trimming, checked under SpecZero *)

\* x is the start of y
IsPrefix(x, y) == Len(x) <= Len(y) /\ x = SubSeq(y, 1, Len(x))

\* the number of zero intensities at the end of x
RECURSIVE ZeroTail(_)
ZeroTail(x) ==
    IF x = <<>> \/ x[Len(x)] # 0 THEN 0
    ELSE 1 + ZeroTail(SubSeq(x, 1, Len(x) - 1))

\* C27: sum_roi raises no error; the trace it leaves is the start of the trace
\* it found (in all four arrays, the m/z of a leading zero entry apart), what
\* it has cut off are zero-intensity entries, and at most one zero-intensity
\* entry is left after the last non-zero one.
C27_TrimsOnlyZeroTail ==
    [][ sum_pos' = sum_pos + 1 =>
          LET old == heap[d_rois[sum_pos + 1]]
              new == heap'[d_rois[sum_pos + 1]]
          IN  /\ pc' # "error"
              /\ IsPrefix(new.int_seq, old.int_seq)
              /\ IsPrefix(new.rt_seq, old.rt_seq)
              /\ IsPrefix(new.scan_idx_seq, old.scan_idx_seq)
              /\ IsPrefix(Tail(new.mz_seq), Tail(old.mz_seq))
              /\ count_nonzero(new.int_seq) = count_nonzero(old.int_seq)
              /\ count_nonzero(new.int_seq) > 0 => ZeroTail(new.int_seq) <= 1
      ]_vars

-----------------------------------------------------------------------------
(* Properties of the scan indices of a trace, checked under Spec *)

\* the indices of the MS1 scans read so far, ascending
Ms1Indices == SelectSeq([p \in 1..Len(scans) |-> p - 1], LAMBDA q : scans[q + 1].level = 1)

\* x is a run of consecutive MS1 scan indices: those at the positions
\* first..last of Ms1Indices
IsMs1Run(x, first, last) ==
    /\ first >= 1
    /\ first <= last
    /\ last <= Len(Ms1Indices)
    /\ x = SubSeq(Ms1Indices, first, last)

\* C28: during tracking the scan_idx_seq of every ROI is a run of consecutive
\* MS1 scan indices without holes or repeats, and that of a ROI in progress
\* ends with the MS1 scan processed last.
C28_ConsecutiveMs1Scans ==
    pc = "track" =>
        /\ \A i \in 1..Len(rois) :
              \E first \in 1..Len(Ms1Indices) :
                  IsMs1Run(heap[rois[i]].scan_idx_seq, first, Len(Ms1Indices))
        /\ \A i \in 1..Len(final_rois) :
              \E first, last \in 1..Len(Ms1Indices) :
                  IsMs1Run(heap[final_rois[i]].scan_idx_seq, first, last)
        /\ Len(rois) > 0 => Ms1Indices[Len(Ms1Indices)] = last_ms1_idx

\* a ROI in progress has a detection, a padding entry and a detection again,
\* with an MS2 scan between the MS1 scans of its trace
C28_Witness ==
    /\ pc = "track"
    /\ \E i \in 1..Len(rois) :
          LET roi == heap[rois[i]]
              n == Len(roi.scan_idx_seq)
          IN  /\ n >= 3
              /\ roi.int_seq[n] > 0
              /\ roi.int_seq[n - 1] = 0
              /\ roi.int_seq[n - 2] > 0
              /\ roi.scan_idx_seq[n] > roi.scan_idx_seq[n - 1] + 1

-----------------------------------------------------------------------------
(* Properties of roi_cutter, checked under SpecLife *)

\* the ROI of the list before that is not in the list after
CutRoi == CHOOSE r \in { d_rois[i] : i \in 1..Len(d_rois) } : ~InSeq(r, d_rois')

\* the intensities of the piece of the trace x from position lo to hi, with
\* the entry at an end that is a cut position halved
HalvedPiece(x, lo, hi) ==
    [m \in 1..(hi - lo + 1) |->
        IF (m = 1 /\ lo > 1) \/ (m = hi - lo + 1 /\ hi < Len(x))
        THEN x[lo + m - 1] \div 2
        ELSE x[lo + m - 1]]

\* pieces are the parts of the ROI orig between the consecutive bounds b
PartsAt(orig, pieces, b) ==
    /\ b[1] = 1
    /\ b[Len(b)] = Len(orig.int_seq)
    /\ \A j \in 1..(Len(b) - 1) : b[j] < b[j + 1]
    /\ \A j \in 1..Len(pieces) :
          /\ pieces[j].scan_idx_seq = SubSeq(orig.scan_idx_seq, b[j], b[j + 1])
          /\ pieces[j].rt_seq = SubSeq(orig.rt_seq, b[j], b[j + 1])
          /\ pieces[j].mz_seq = SubSeq(orig.mz_seq, b[j], b[j + 1])
          /\ pieces[j].int_seq = HalvedPiece(orig.int_seq, b[j], b[j + 1])

\* the sum of the intensities of a trace
TraceSum(x) == SumOver(x, 1..Len(x))

RECURSIVE PiecesSum(_)
PiecesSum(pieces) ==
    IF pieces = <<>> THEN 0
    ELSE TraceSum(Head(pieces).int_seq) + PiecesSum(Tail(pieces))

\* C29: roi_cutter with k cut positions makes k+1 sub-ROIs that are contiguous
\* parts of the trace covering it and sharing only the cut entries; a cut entry
\* is in both neighbours with half its intensity, so the intensities of the
\* sub-ROIs add up to those of the trace; no MS2 of the ROI is in two sub-ROIs.
C29_CutterPartitionsTrace ==
    [][ (pc = "found" /\ pc' = "cutdone") =>
          LET orig == heap[CutRoi]
              k == Len(d_rois') - Len(d_rois)
              pieces == [j \in 1..(k + 1) |-> heap'[d_rois'[Len(d_rois) - 1 + j]]]
          IN  /\ k >= 1
              /\ \E b \in [1..(k + 2) -> 1..Len(orig.int_seq)] : PartsAt(orig, pieces, b)
              /\ PiecesSum(pieces) = TraceSum(orig.int_seq)
              /\ \A j \in 1..(k + 1) :
                    \A n \in 1..Len(pieces[j].ms2_seq) :
                        /\ InSeq(pieces[j].ms2_seq[n], orig.ms2_seq)
                        /\ \A i \in 1..(k + 1) :
                              InSeq(pieces[j].ms2_seq[n], pieces[i].ms2_seq) => i = j
    ]_vars

\* a ROI with an MS2 spectrum was cut at an entry with a non-zero intensity,
\* and one of the two sub-ROIs has the MS2 spectrum
C29_Witness ==
    /\ pc = "cutdone"
    /\ Len(d_rois) >= 2
    /\ LET a == heap[d_rois[Len(d_rois) - 1]]
           b == heap[d_rois[Len(d_rois)]]
       IN  /\ a.scan_idx_seq[Len(a.scan_idx_seq)] = b.scan_idx_seq[1]
           /\ a.int_seq[Len(a.int_seq)] > 0
           /\ a.int_seq[Len(a.int_seq)] = b.int_seq[1]
           /\ Len(a.ms2_seq) + Len(b.ms2_seq) >= 1

====
